---- MODULE Spec2Model ----
(***************************************************************************)
(* Card number validator: the validation pipeline of validator/validators, *)
(* the serializer and view of the validate endpoint, and the request       *)
(* logging middleware.                                                     *)
(*                                                                         *)
(* A Python str is a sequence of characters.  A character is written as a  *)
(* TLA+ string: "0".."9", " ", "-", "a", "*", and three names for          *)
(* characters outside ASCII:                                               *)
(*   "ar3", "ar4"  ARABIC-INDIC DIGIT THREE / FOUR (category Nd)           *)
(*   "sup2"        SUPERSCRIPT TWO (category No, str.isdigit() is True)    *)
(***************************************************************************)
EXTENDS Integers, Sequences, FiniteSets, TLC

VARIABLES
    arg,          \* unit level: the string a validator function is called on
    called,       \* unit level: the function that was called, "none" before
    ret,          \* unit level: what the call returned or raised
    pc,           \* per request: "new", "view", "response", "done"
    request,      \* per request: method, path, data, request_id attribute
    response,     \* per request: status_code, data, X-Request-ID header
    log           \* the records the 'validator' logger has emitted, in order

vars == <<arg, called, ret, pc, request, response, log>>

----------------------------------------------------------------------------
\* Bounds of the checked instances

\* every string of ASCII digits up to this length is an input
MaxDigits == 3
\* every string over MixedChars up to this length is an input
MaxMixed == 3
\* padded inputs carry 0..MaxPad repetitions of one character
MaxPad == 21
\* number of requests handled concurrently
NumReqs == 2

----------------------------------------------------------------------------
\* Characters

AsciiDigits == {"0", "1", "2", "3", "4", "5", "6", "7", "8", "9"}

\* the characters of the mixed inputs
MixedChars == {"4", "5", "7", " ", "-", "a", "*", "ar3", "sup2"}

\* the digit characters in value order
DigitChar == <<"0", "1", "2", "3", "4", "5", "6", "7", "8", "9">>

\* a str written as its digit values
Str(ds) == [i \in DOMAIN ds |-> DigitChar[ds[i] + 1]]

\* Python's \d on a str pattern, and the characters int() accepts: Unicode
\* category Nd (decimal digits), which is more than ASCII 0-9
IsDecimal(c) == c \in AsciiDigits \cup {"ar3", "ar4"}

\* one character of str.isdigit(): Nd and the other digit characters
\* (superscripts and the like)
IsDigitChar(c) == IsDecimal(c) \/ c = "sup2"

\* str.isspace for one character
IsSpace(c) == c = " "

\* int(digit) for one decimal character
int(c) ==
    CASE c = "0" -> 0 [] c = "1" -> 1 [] c = "2" -> 2 [] c = "3" -> 3
      [] c = "4" -> 4 [] c = "5" -> 5 [] c = "6" -> 6 [] c = "7" -> 7
      [] c = "8" -> 8 [] c = "9" -> 9 [] c = "ar3" -> 3 [] c = "ar4" -> 4

\* number[::-1]
Reverse(s) == [i \in 1..Len(s) |-> s[Len(s) + 1 - i]]

\* str.startswith(prefix)
startswith(s, prefix) ==
    /\ Len(s) >= Len(prefix)
    /\ SubSeq(s, 1, Len(prefix)) = prefix

\* str.startswith(tuple of prefixes)
startswith_any(s, prefixes) == \E p \in prefixes : startswith(s, p)

\* str.isdigit(): every character is a digit and there is at least one
isdigit(s) == Len(s) > 0 /\ \A i \in 1..Len(s) : IsDigitChar(s[i])

----------------------------------------------------------------------------
\* validator/validators.py

CardScheme == [VISA |-> "visa", MASTERCARD |-> "mastercard", AMEX |-> "amex",
               DISCOVER |-> "discover", UNKNOWN |-> "unknown"]

\* a call that returned None, and one that raised
None == [exc |-> "none", detail |-> ""]
ValidationError(detail) == [exc |-> "ValidationError", detail |-> detail]
ValueError == [exc |-> "ValueError", detail |-> "invalid literal for int()"]

MinLength == 12
MaxLength == 19

\* re.sub(r"[^\d]", "", value)
sanitize_number(value) == SelectSeq(value, IsDecimal)

validate_length_13(number) ==
    IF ~(13 <= Len(number) /\ Len(number) <= MaxLength)
    THEN ValidationError("Number must be between 12 and 19 digits.")
    ELSE None

validate_length(number) ==
    IF ~(MinLength <= Len(number) /\ Len(number) <= MaxLength)
    THEN ValidationError("Number must be between 12 and 19 digits.")
    ELSE None

validate_digits(number) ==
    IF ~isdigit(number)
    THEN ValidationError("Number must contain only digits.")
    ELSE None

\* the loop body of luhn_check without the "subtract 9"
luhn_step_nosub(i, n) == IF i % 2 = 1 THEN n * 2 ELSE n

\* the loop body of luhn_check doubling the wrong positions
luhn_step_even(i, n) ==
    IF i % 2 = 0
    THEN (IF n * 2 > 9 THEN n * 2 - 9 ELSE n * 2)
    ELSE n

\* the loop body of luhn_check: what the digit n at index i of the reversed
\* number adds to total
luhn_step(i, n) ==
    IF i % 2 = 1
    THEN (IF n * 2 > 9 THEN n * 2 - 9 ELSE n * 2)
    ELSE n

\* the for loop of luhn_check from index i (zero-based) on
RECURSIVE luhn_loop(_, _, _)
luhn_loop(reverse_digits, i, total) ==
    IF i >= Len(reverse_digits) THEN total
    ELSE luhn_loop(reverse_digits, i + 1,
                   total + luhn_step(i, int(reverse_digits[i + 1])))

\* int(digit) raises ValueError on a character that is no decimal digit
luhn_check(number) ==
    IF \E i \in 1..Len(number) : ~IsDecimal(number[i])
    THEN ValueError
    ELSE luhn_loop(Reverse(number), 0, 0) % 10 = 0

detect_scheme_5(number) ==
    IF startswith(number, <<"4">>) THEN CardScheme.VISA
    ELSE IF startswith(number, <<"5">>) THEN CardScheme.MASTERCARD
    ELSE IF startswith_any(number, {<<"3", "4">>, <<"3", "7">>})
    THEN CardScheme.AMEX
    ELSE IF startswith(number, <<"6">>) THEN CardScheme.DISCOVER
    ELSE CardScheme.UNKNOWN

detect_scheme(number) ==
    IF startswith(number, <<"4">>) THEN CardScheme.VISA
    ELSE IF startswith_any(number, {<<"5", "1">>, <<"5", "2">>, <<"5", "3">>,
                                    <<"5", "4">>, <<"5", "5">>})
    THEN CardScheme.MASTERCARD
    ELSE IF startswith_any(number, {<<"3", "4">>, <<"3", "7">>})
    THEN CardScheme.AMEX
    ELSE IF startswith(number, <<"6">>) THEN CardScheme.DISCOVER
    ELSE CardScheme.UNKNOWN

Stars == <<"*", "*", "*", "*">>

mask_number_for_logging_le(number) ==
    IF Len(number) <= 4 THEN Stars
    ELSE Stars \o SubSeq(number, Len(number) - 3, Len(number))

mask_number_for_logging(number) ==
    IF Len(number) < 4 THEN Stars
    ELSE Stars \o SubSeq(number, Len(number) - 3, Len(number))

----------------------------------------------------------------------------
\* Unit level: one validator function called on one input string

\* every sequence over S of length at most n
SeqsUpTo(S, n) == UNION {[1..k -> S] : k \in 0..n}

\* n repetitions of the character c
Pad(c, n) == [i \in 1..n |-> c]

\* every prefix of s, the empty one and s included
Prefixes(s) == {SubSeq(s, 1, k) : k \in 0..Len(s)}

\* the card numbers of validator/tests.py
VisaValid == Str(<<4, 5, 3, 2, 0, 1, 5, 1, 1, 2, 8, 3, 0, 3, 6, 6>>)
VisaInvalid == Str(<<4, 5, 3, 2, 0, 1, 5, 1, 1, 2, 8, 3, 0, 3, 6, 7>>)
MastercardValid == Str(<<5, 4, 2, 5, 2, 3, 3, 4, 3, 0, 1, 0, 9, 9, 0, 3>>)
Mastercard55 == Str(<<5, 5, 9, 9, 2, 3, 3, 4, 3, 0, 1, 0, 9, 9, 0, 3>>)
AmexValid == Str(<<3, 7, 4, 2, 4, 5, 4, 5, 5, 4, 0, 0, 1, 2, 6>>)
Amex34 == Str(<<3, 4, 0, 0, 0, 0, 0, 0, 0, 0, 0, 0, 0, 0, 9>>)
DiscoverValid == Str(<<6, 0, 1, 1, 0, 0, 0, 0, 0, 0, 0, 0, 0, 0, 1, 2>>)
AllNines == Pad("9", 16)
AllZeros == Pad("0", 16)
WithSpaces ==
    Str(<<4, 5, 3, 2>>) \o <<" ">> \o Str(<<0, 1, 5, 1>>) \o <<" ">>
        \o Str(<<1, 2, 8, 3>>) \o <<" ">> \o Str(<<0, 3, 6, 6>>)
WithDashes ==
    Str(<<4, 5, 3, 2>>) \o <<"-">> \o Str(<<0, 1, 5, 1>>) \o <<"-">>
        \o Str(<<1, 2, 8, 3>>) \o <<"-">> \o Str(<<0, 3, 6, 6>>)

TestVectors ==
    {VisaValid, VisaInvalid, MastercardValid, Mastercard55, AmexValid, Amex34,
     DiscoverValid, AllNines, AllZeros}

PadHeads ==
    {<<>>, <<"4">>, <<"-">>, <<"a">>, <<"6">>, <<"3", "7">>, <<"5", "1">>,
     <<"5", "6">>, <<"ar4">>}
PadChars == {"0", "7", "a", " ", "ar3"}

Inputs ==
    SeqsUpTo(AsciiDigits, MaxDigits)
        \cup SeqsUpTo(MixedChars, MaxMixed)
        \cup {h \o Pad(c, n) : h \in PadHeads, c \in PadChars, n \in 0..MaxPad}
        \cup UNION {Prefixes(v) : v \in TestVectors}
        \cup {WithSpaces, WithDashes}

NotCalled == "none"


call_sanitize_number ==
    /\ called = NotCalled
    /\ called' = "sanitize_number"
    /\ ret' = sanitize_number(arg)
    /\ UNCHANGED <<arg, pc, request, response, log>>

call_validate_length ==
    /\ called = NotCalled
    /\ called' = "validate_length"
    /\ ret' = validate_length(arg)
    /\ UNCHANGED <<arg, pc, request, response, log>>

call_validate_digits ==
    /\ called = NotCalled
    /\ called' = "validate_digits"
    /\ ret' = validate_digits(arg)
    /\ UNCHANGED <<arg, pc, request, response, log>>

call_luhn_check ==
    /\ called = NotCalled
    /\ called' = "luhn_check"
    /\ ret' = luhn_check(arg)
    /\ UNCHANGED <<arg, pc, request, response, log>>

call_detect_scheme ==
    /\ called = NotCalled
    /\ called' = "detect_scheme"
    /\ ret' = detect_scheme(arg)
    /\ UNCHANGED <<arg, pc, request, response, log>>

call_mask_number_for_logging ==
    /\ called = NotCalled
    /\ called' = "mask_number_for_logging"
    /\ ret' = mask_number_for_logging(arg)
    /\ UNCHANGED <<arg, pc, request, response, log>>

----------------------------------------------------------------------------
\* validator/serializers.py

\* str.strip(), as CharField(trim_whitespace=True) applies it
RECURSIVE lstrip(_)
lstrip(s) == IF Len(s) > 0 /\ IsSpace(Head(s)) THEN lstrip(Tail(s)) ELSE s

strip(s) == Reverse(lstrip(Reverse(lstrip(s))))

\* request.data: a JSON object with or without the "number" member
NoNumber == [has_number |-> FALSE, number |-> <<>>]
Number(s) == [has_number |-> TRUE, number |-> s]

\* the outcome of a validation step
Invalid(detail) == [valid |-> FALSE, detail |-> detail, value |-> <<>>]
Valid(value) == [valid |-> TRUE, detail |-> "", value |-> value]

\* number = serializers.CharField(): the field is required, not blank, and
\* its value is stripped
CharField(data) ==
    IF ~data.has_number THEN Invalid("This field is required.")
    ELSE IF strip(data.number) = <<>>
    THEN Invalid("This field may not be blank.")
    ELSE Valid(strip(data.number))

\* validate_number that also rejects a failed checksum
validate_number_luhn(value) ==
    LET sanitized == sanitize_number(value)
    IN  IF validate_length(sanitized) # None
        THEN Invalid(validate_length(sanitized).detail)
        ELSE IF validate_digits(sanitized) # None
        THEN Invalid(validate_digits(sanitized).detail)
        ELSE IF luhn_check(sanitized) # TRUE
        THEN Invalid("Invalid card number")
        ELSE Valid(sanitized)

\* ValidateSerializer.validate_number: the first error raised, or the
\* sanitized number
validate_number(value) ==
    LET sanitized == sanitize_number(value)
    IN  IF validate_length(sanitized) # None
        THEN Invalid(validate_length(sanitized).detail)
        ELSE IF validate_digits(sanitized) # None
        THEN Invalid(validate_digits(sanitized).detail)
        ELSE Valid(sanitized)

\* ValidateSerializer(data=...).is_valid() with errors / validated_data
ValidateSerializer(data) ==
    IF ~CharField(data).valid THEN CharField(data)
    ELSE validate_number(CharField(data).value)

----------------------------------------------------------------------------
\* validator/views.py and config/logging.py

Reqs == 1..NumReqs

\* the values of str(uuid.uuid4()): they are distinct, and the k-th one
\* generated is written k
UUIDs == {ToString(i) : i \in 1..NumReqs}

\* a request object before process_request has set the attribute
NoAttr == "no attribute"

HTTP_200_OK == 200
HTTP_400_BAD_REQUEST == 400

\* the routes of validator/urls.py with the method each view implements
ValidateRoute == [method |-> "POST", path |-> "validate/"]
HealthRoute == [method |-> "GET", path |-> "health/"]

\* the request bodies that are posted: no number, a blank one, the valid
\* and the invalid Visa number, and numbers of 11, 12, 19 and 20 digits
Bodies ==
    {NoNumber, Number(<<" ", " ">>),
     Number(WithSpaces), Number(VisaInvalid),
     Number(Pad("1", MinLength - 1)),
     Number(<<"6">> \o Pad("ar4", MinLength - 1)),
     Number(<<"a", "3", "7">> \o Pad("3", MaxLength - 2) \o <<"sup2">>),
     Number(Pad("5", MaxLength + 1))}

NoResponse == [status_code |-> 0, data |-> <<>>, X_Request_ID |-> NoAttr]

\* getattr(request, 'request_id', '-') reading an identifier that is shared
\* by the requests in flight
getattr_request_id_shared(r) ==
    LET started == {q \in Reqs : request[q].request_id # NoAttr}
    IN  IF started = {} THEN "-"
        ELSE request[CHOOSE q \in started : \A p \in started : q >= p].request_id

\* getattr(request, 'request_id', '-')
getattr_request_id(r) ==
    IF request[r].request_id = NoAttr THEN "-" ELSE request[r].request_id

\* the body of the 200 response, reporting the scheme of valid numbers only
post_data_valid_only(number) ==
    [valid |-> luhn_check(number),
     scheme |-> IF luhn_check(number) THEN detect_scheme(number)
                ELSE CardScheme.UNKNOWN,
     message |-> IF luhn_check(number) THEN "OK" ELSE "Invalid card number"]

\* the body of the 200 response of ValidateView.post
post_data(number) ==
    [valid |-> luhn_check(number),
     scheme |-> detect_scheme(number),
     message |-> IF luhn_check(number) THEN "OK" ELSE "Invalid card number"]

\* the record ValidateView.post logs
post_log(r, number) ==
    [msg |-> "Card validation completed",
     scheme |-> detect_scheme(number),
     valid |-> luhn_check(number),
     masked_number |-> mask_number_for_logging(number),
     request_id |-> getattr_request_id(r)]

\* the line RequestLoggingMiddleware.process_response logs (the duration
\* it prints is left out: no clock is modelled)
http_log(r) ==
    [msg |-> "HTTP",
     method |-> request[r].method,
     path |-> request[r].path,
     status_code |-> response[r].status_code,
     request_id |-> getattr_request_id(r)]

Init ==
    /\ arg = <<>>
    /\ called = "served"
    /\ ret = NotCalled
    /\ pc = [r \in Reqs |-> "new"]
    /\ request = [r \in Reqs |->
                    [method |-> "", path |-> "", data |-> NoNumber,
                     request_id |-> NoAttr]]
    /\ response = [r \in Reqs |-> NoResponse]
    /\ log = <<>>

InitUnit ==
    /\ arg \in Inputs
    /\ called = NotCalled
    /\ ret = NotCalled
    /\ pc = [r \in Reqs |-> "new"]
    /\ request = [r \in Reqs |->
                    [method |-> "", path |-> "", data |-> NoNumber,
                     request_id |-> NoAttr]]
    /\ response = [r \in Reqs |-> NoResponse]
    /\ log = <<>>

\* str(uuid.uuid4()) of process_request: a value no request has yet
uuid4 ==
    ToString(1 + Cardinality({q \in Reqs : request[q].request_id # NoAttr}))

\* RequestLoggingMiddleware.process_request on an arriving request
process_request(r) ==
    /\ pc[r] = "new"
    /\ \E route \in {ValidateRoute, HealthRoute}, data \in Bodies :
        /\ route = HealthRoute => data = NoNumber
        /\ request' = [request EXCEPT ![r] =
                         [method |-> route.method, path |-> route.path,
                          data |-> data, request_id |-> uuid4]]
    /\ pc' = [pc EXCEPT ![r] = "view"]
    /\ UNCHANGED <<arg, called, ret, response, log>>

\* ValidateView.post
ValidateView_post(r) ==
    /\ pc[r] = "view"
    /\ request[r].path = ValidateRoute.path
    /\ LET serializer == ValidateSerializer(request[r].data)
       IN  IF ~serializer.valid
           THEN /\ response' = [response EXCEPT ![r] =
                                  [status_code |-> HTTP_400_BAD_REQUEST,
                                   data |-> [error |-> serializer.detail],
                                   X_Request_ID |-> NoAttr]]
                /\ log' = log
           ELSE /\ log' = Append(log, post_log(r, serializer.value))
                /\ response' = [response EXCEPT ![r] =
                                  [status_code |-> HTTP_200_OK,
                                   data |-> post_data(serializer.value),
                                   X_Request_ID |-> NoAttr]]
    /\ pc' = [pc EXCEPT ![r] = "response"]
    /\ UNCHANGED <<arg, called, ret, request>>

\* HealthView.get
HealthView_get(r) ==
    /\ pc[r] = "view"
    /\ request[r].path = HealthRoute.path
    /\ response' = [response EXCEPT ![r] =
                      [status_code |-> HTTP_200_OK,
                       data |-> [status |-> "Ok"],
                       X_Request_ID |-> NoAttr]]
    /\ pc' = [pc EXCEPT ![r] = "response"]
    /\ UNCHANGED <<arg, called, ret, request, log>>

\* RequestLoggingMiddleware.process_response
process_response(r) ==
    /\ pc[r] = "response"
    /\ log' = Append(log, http_log(r))
    /\ response' = [response EXCEPT ![r].X_Request_ID = getattr_request_id(r)]
    /\ pc' = [pc EXCEPT ![r] = "done"]
    /\ UNCHANGED <<arg, called, ret, request>>

Next ==
    \E r \in Reqs :
        \/ process_request(r)
        \/ ValidateView_post(r)
        \/ HealthView_get(r)
        \/ process_response(r)

Spec == Init /\ [][Next]_vars

NextUnit ==
    \/ call_sanitize_number
    \/ call_validate_length
    \/ call_validate_digits
    \/ call_luhn_check
    \/ call_detect_scheme
    \/ call_mask_number_for_logging

SpecUnit == InitUnit /\ [][NextUnit]_vars

----------------------------------------------------------------------------
\* What the properties are stated with

IsAsciiDigit(c) == c \in AsciiDigits

IsAsciiDigitString(s) == \A i \in 1..Len(s) : IsAsciiDigit(s[i])

\* the number of decimal digit characters of s
DigitCount(s) == Cardinality({i \in 1..Len(s) : IsDecimal(s[i])})

\* what the digit at position k from the right adds to the Luhn sum, the
\* rightmost digit being position 0
LuhnTerm(s, k) ==
    LET d == int(s[Len(s) - k])
    IN  IF k % 2 = 1
        THEN (IF 2 * d > 9 THEN 2 * d - 9 ELSE 2 * d)
        ELSE d

\* the Luhn sum of the positions k and above of a string of decimal digits
RECURSIVE LuhnSumFrom(_, _)
LuhnSumFrom(s, k) ==
    IF k >= Len(s) THEN 0 ELSE LuhnTerm(s, k) + LuhnSumFrom(s, k + 1)

\* the Luhn sum of a string of decimal digits
LuhnSum(s) == LuhnSumFrom(s, 0)

\* the four prefix rules of the scheme table, by their priority
Rule(k, s) ==
    CASE k = 1 -> Len(s) >= 1 /\ s[1] = "4"
      [] k = 2 -> Len(s) >= 2 /\ s[1] = "5"
                    /\ s[2] \in {"1", "2", "3", "4", "5"}
      [] k = 3 -> Len(s) >= 2 /\ s[1] = "3" /\ s[2] \in {"4", "7"}
      [] k = 4 -> Len(s) >= 1 /\ s[1] = "6"

RuleScheme == <<"visa", "mastercard", "amex", "discover">>

\* the scheme of the first rule that matches, unknown when none does
SchemeByTable(s) ==
    IF \E k \in 1..4 : Rule(k, s)
    THEN RuleScheme[CHOOSE k \in 1..4 :
                        Rule(k, s) /\ \A j \in 1..(k - 1) : ~Rule(j, s)]
    ELSE "unknown"

\* s with the character at position i replaced by c
Replace(s, i, c) == [s EXCEPT ![i] = c]

\* the requests the validate view has answered
Answered == {r \in Reqs : pc[r] \in {"response", "done"}
                            /\ request[r].path = ValidateRoute.path}

\* the log records of one kind
ViewRecords == {i \in DOMAIN log : log[i].msg = "Card validation completed"}
HttpRecords == {i \in DOMAIN log : log[i].msg = "HTTP"}

----------------------------------------------------------------------------
\* Properties of the endpoint (specification Spec)

C2_ResponseBody ==
    /\ \A r \in Answered :
        response[r].status_code = 200 =>
            LET number == sanitize_number(request[r].data.number)
            IN  /\ DOMAIN response[r].data = {"valid", "scheme", "message"}
                /\ response[r].data.valid = (LuhnSum(number) % 10 = 0)
                /\ response[r].data.scheme = SchemeByTable(number)
                /\ response[r].data.message =
                       (IF response[r].data.valid THEN "OK"
                        ELSE "Invalid card number")
    /\ \A r, q \in Answered :
        (/\ response[r].status_code = 200
         /\ response[q].status_code = 200
         /\ SubSeq(sanitize_number(request[r].data.number), 1, 2)
                = SubSeq(sanitize_number(request[q].data.number), 1, 2))
            => response[r].data.scheme = response[q].data.scheme

C2_Witness ==
    \E r, q \in Reqs :
        /\ pc[r] = "done" /\ pc[q] = "done"
        /\ response[r].status_code = 200 /\ response[q].status_code = 200
        /\ request[r].data = Number(WithSpaces)
        /\ request[q].data = Number(VisaInvalid)
        /\ response[r].data.valid = TRUE /\ response[q].data.valid = FALSE
        /\ response[r].data.scheme = "visa" /\ response[q].data.scheme = "visa"

\* C9: in every interleaving of the requests, a finished request's response
\* carries the X-Request-ID header with the identifier generated for that
\* request, exactly one HTTP log line with that identifier was written, no
\* two requests have the same identifier, and every record the validate
\* view logged carries the identifier of a request the view has answered
\* with 200, with that request's scheme, validity and masked number and
\* nothing else of the number (the masked number is neither the raw nor the
\* sanitized number).
C9_RequestIdentifier ==
    /\ \A r, q \in Reqs :
        (r # q /\ request[r].request_id # NoAttr)
            => request[r].request_id # request[q].request_id
    /\ \A r \in Reqs :
        LET lines == {i \in HttpRecords :
                        log[i].request_id = request[r].request_id}
        IN  IF pc[r] = "done"
            THEN /\ response[r].X_Request_ID = request[r].request_id
                 /\ request[r].request_id \in UUIDs
                 /\ Cardinality(lines) = 1
                 /\ \A i \in lines :
                        /\ log[i].status_code = response[r].status_code
                        /\ log[i].path = request[r].path
            ELSE /\ response[r].X_Request_ID = NoAttr
                 /\ lines = {}
    /\ \A i \in ViewRecords :
        \E r \in Answered :
            LET number == sanitize_number(request[r].data.number)
            IN  /\ log[i].request_id = request[r].request_id
                /\ response[r].status_code = 200
                /\ DOMAIN log[i] = {"msg", "scheme", "valid", "masked_number",
                                    "request_id"}
                /\ log[i].scheme = response[r].data.scheme
                /\ log[i].valid = response[r].data.valid
                /\ log[i].masked_number
                       = Stars \o SubSeq(number, Len(number) - 3, Len(number))
                /\ log[i].masked_number # number
                /\ log[i].masked_number # request[r].data.number
    /\ \A r \in Answered :
        Cardinality({i \in ViewRecords :
                        log[i].request_id = request[r].request_id})
            = (IF response[r].status_code = 200 THEN 1 ELSE 0)

\* both requests were in the view before either response was processed
C9_Witness ==
    /\ Len(log) = 2 * NumReqs
    /\ \A i \in 1..NumReqs : i \in ViewRecords
    /\ \A r \in Reqs : pc[r] = "done"
    /\ \E r, q \in Reqs :
        /\ log[1].request_id = request[r].request_id
        /\ log[2].request_id = request[q].request_id
        /\ r # q
        /\ log[1].masked_number # log[2].masked_number

----------------------------------------------------------------------------
\* Properties of the validator functions (specification SpecUnit)

\* C3: on a non-empty string of digits luhn_check returns true exactly when
\* the Luhn sum is 0 modulo 10 (digits taken from the right, the 2nd, 4th,
\* ... from the right doubled and reduced by 9 when above 9); it accepts
\* 4532015112830366 and 0000000000000000 and rejects 4532015112830367.
C3_LuhnSum ==
    (called = "luhn_check" /\ Len(arg) > 0 /\ IsAsciiDigitString(arg)) =>
        /\ ret = (LuhnSum(arg) % 10 = 0)
        /\ arg = VisaValid => ret = TRUE
        /\ arg = AllZeros => ret = TRUE
        /\ arg = VisaInvalid => ret = FALSE

C3_Witness ==
    /\ called = "luhn_check"
    /\ arg = VisaValid
    /\ ret = TRUE

\* C4: detect_scheme returns, on every string, one of visa, mastercard,
\* amex, discover, unknown: the scheme of the first rule of the table that
\* matches, unknown when none does; no string matches two of the four rules.
C4_SchemeTable ==
    called = "detect_scheme" =>
        /\ ret \in {"visa", "mastercard", "amex", "discover", "unknown"}
        /\ ret = SchemeByTable(arg)
        /\ Cardinality({k \in 1..4 : Rule(k, arg)}) <= 1
        /\ arg = <<>> => ret = "unknown"

C4_Witness ==
    /\ called = "detect_scheme"
    /\ arg = AmexValid
    /\ ret = "amex"

\* C5: sanitize_number returns exactly the subsequence of the ASCII digits
\* 0-9 of its argument, in their order.
C5_AsciiDigitsOnly ==
    called = "sanitize_number" => ret = SelectSeq(arg, IsAsciiDigit)

C7_DigitsOnly ==
    called = "validate_digits" =>
        IF \E i \in 1..Len(arg) : ~IsDecimal(arg[i])
        THEN ret = ValidationError("Number must contain only digits.")
        ELSE ret = None

\* C8: mask_number_for_logging returns "****" on fewer than 4 characters and
\* otherwise "****" followed by the last 4 characters; the result has at
\* most 8 characters and nothing of the argument but its last 4.
C8_Mask ==
    called = "mask_number_for_logging" =>
        LET n == Len(arg)
        IN  /\ n < 4 => ret = <<"*", "*", "*", "*">>
            /\ n >= 4 =>
                ret = <<"*", "*", "*", "*", arg[n - 3], arg[n - 2],
                        arg[n - 1], arg[n]>>
            /\ Len(ret) <= 8
            /\ \A i \in 5..Len(ret) : ret[i] = arg[n - Len(ret) + i]

C8_Witness ==
    /\ called = "mask_number_for_logging"
    /\ arg = VisaValid
    /\ ret = <<"*", "*", "*", "*", "0", "3", "6", "6">>

\* C10: replacing one digit of a string luhn_check accepts by another digit
\* gives a string it rejects, and every string of digits has exactly one
\* digit that, appended, makes luhn_check accept.
C10_SingleDigitErrors ==
    (called = "luhn_check" /\ IsAsciiDigitString(arg)) =>
        /\ ret = TRUE =>
            \A i \in 1..Len(arg) :
                \A d \in AsciiDigits \ {arg[i]} :
                    luhn_check(Replace(arg, i, d)) = FALSE
        /\ Cardinality({d \in AsciiDigits :
                            luhn_check(Append(arg, d)) = TRUE}) = 1

C10_Witness ==
    /\ called = "luhn_check"
    /\ arg = MastercardValid
    /\ ret = TRUE

====
